---- MODULE Spec2Model ----
(***************************************************************************)
(* Model of monerodata/xmrserialize.py: the schema-driven streaming codec  *)
(* (dump_* / load_* functions), the in-memory transport                    *)
(* MemoryReaderWriter and the module-level scratch buffer _UINT_BUFFER.    *)
(*                                                                         *)
(* Python values are records tagged by "k":                                *)
(*   None            [k |-> "None"]                                        *)
(*   int             [k |-> "int",   n |-> limbs]  (see the Big* section)  *)
(*   bytearray/bytes [k |-> "bytes", b |-> <<byte, ...>>]                  *)
(*   str             [k |-> "str",   s |-> <<code point, ...>>]            *)
(*   list            [k |-> "list",  items |-> <<value, ...>>]             *)
(*   object          [k |-> "obj", cls |-> descriptor, id |-> identity,    *)
(*                    attrs |-> function from attribute names to values]   *)
(* A call's outcome is a record with st = "ok" or the name of the Python   *)
(* exception raised; io is the state the call leaves behind: the           *)
(* transport's buffer and the shared scratch buffer.                       *)
(***************************************************************************)
EXTENDS Integers, Sequences, FiniteSets, TLC

VARIABLES
    pc,       \* position of the sequential driver: "new", "dumped", "loaded"
    io,       \* [buffer: MemoryReaderWriter.buffer, ub: _UINT_BUFFER]
    dumped,   \* the last dump call: its arguments and outcome
    loaded,   \* the last load call: its arguments and outcome
    tpc,      \* tasks: position of each cooperative task
    tn,       \* tasks: the integer each task still has to write / has read
    tleft,    \* tasks: loop iterations left (range(width))
    tshift,   \* tasks: load_uint's shift
    tbuf,     \* tasks: each task's own transport buffer
    tin,      \* tasks: what each task was asked to do (kind, n, width)
    ubuf,     \* tasks: the module-level _UINT_BUFFER shared by all tasks
    written,  \* queue: the initial buffer and every byte handed to awrite since
    delivered \* queue: every byte areadinto has put into a caller's buffer

vars == <<pc, io, dumped, loaded, tpc, tn, tleft, tshift, tbuf, tin, ubuf, written, delivered>>

seqvars == <<pc, io, dumped, loaded>>

taskvars == <<tpc, tn, tleft, tshift, tbuf, tin, ubuf>>

queuevars == <<written, delivered>>

Min(a, b) == IF a < b THEN a ELSE b

(***************************************************************************)
(* Python's unbounded int.  A nonnegative int is its little-endian         *)
(* sequence of 16-bit limbs without trailing zero limbs (0 is <<>>), so    *)
(* that 2^64 - 1 and 2^76 are values of the model.                         *)
(***************************************************************************)
LimbBits == 16

LimbBase == 2 ^ LimbBits

RECURSIVE Norm(_)
Norm(a) ==
    IF a = <<>> THEN <<>>
    ELSE IF a[Len(a)] = 0 THEN Norm(SubSeq(a, 1, Len(a) - 1))
    ELSE a

RECURSIVE Big(_)
Big(n) == IF n = 0 THEN <<>> ELSE <<n % LimbBase>> \o Big(n \div LimbBase)

Limb(a, i) == IF i <= Len(a) THEN a[i] ELSE 0

\* 2^e as an int
BigPow2(e) ==
    [i \in 1..((e \div LimbBits) + 1) |->
        IF i = (e \div LimbBits) + 1 THEN 2 ^ (e % LimbBits) ELSE 0]

\* a - 1 for a > 0
RECURSIVE BigPred(_)
BigPred(a) ==
    IF a[1] > 0 THEN Norm(<<a[1] - 1>> \o Tail(a))
    ELSE Norm(<<LimbBase - 1>> \o BigPred(Tail(a)))

\* n & mask for mask = 2^bits - 1, bits <= 16 (0xff, 0x7f): a small number
BigLowBits(a, bits) == Limb(a, 1) % (2 ^ bits)

\* n >> k for 0 < k < 16
BigShr(a, k) ==
    Norm([i \in 1..Len(a) |->
        (a[i] \div (2 ^ k)) + (Limb(a, i + 1) % (2 ^ k)) * (2 ^ (LimbBits - k))])

\* b << s for a small number b (a byte)
BigShl(b, s) ==
    LET q == s \div LimbBits
        x == b * (2 ^ (s % LimbBits))
    IN  Norm([i \in 1..(q + 2) |->
            IF i = q + 1 THEN x % LimbBase
            ELSE IF i = q + 2 THEN x \div LimbBase
            ELSE 0])

RECURSIVE BigAddC(_, _, _, _)
BigAddC(a, b, i, c) ==
    IF i > Len(a) /\ i > Len(b)
    THEN (IF c = 0 THEN <<>> ELSE <<c>>)
    ELSE LET s == Limb(a, i) + Limb(b, i) + c
         IN  <<s % LimbBase>> \o BigAddC(a, b, i + 1, s \div LimbBase)

\* a + b
BigAdd(a, b) == Norm(BigAddC(a, b, 1, 0))

(***************************************************************************)
(* Python values                                                           *)
(***************************************************************************)
None == [k |-> "None"]

PyInt(limbs) == [k |-> "int", n |-> limbs]

PyBytes(bs) == [k |-> "bytes", b |-> bs]

PyStr(cps) == [k |-> "str", s |-> cps]

PyList(xs) == [k |-> "list", items |-> xs]

PyObj(cls, id, attrs) == [k |-> "obj", cls |-> cls, id |-> id, attrs |-> attrs]

NoAttrs == [x \in {} |-> None]

\* getattr(o, name, None)
GetAttr(o, name) == IF name \in DOMAIN o.attrs THEN o.attrs[name] ELSE None

HasAttr(o, name) == name \in DOMAIN o.attrs

\* setattr(o, name, v)
SetAttr(o, name, v) ==
    [o EXCEPT !.attrs =
        [x \in (DOMAIN o.attrs) \cup {name} |-> IF x = name THEN v ELSE o.attrs[x]]]

\* len(x) of a bytearray, list or str
PyLen(x) ==
    CASE x.k = "bytes" -> Len(x.b)
      [] x.k = "list" -> Len(x.items)
      [] x.k = "str" -> Len(x.s)

\* Python truthiness of the values tested in the code (None, lists)
Truthy(x) ==
    CASE x.k = "None" -> FALSE
      [] x.k \in {"list", "bytes", "str"} -> PyLen(x) > 0
      [] x.k = "int" -> x.n # <<>>
      [] OTHER -> TRUE

(***************************************************************************)
(* MemoryReaderWriter.  w is [buffer, ub]: the transport's buffer and the  *)
(* scratch buffer _UINT_BUFFER.  A w that has the field "archive" is the   *)
(* transport held by an Archive (its iobj): the calls made with it are the *)
(* ones Archive makes, with field_archiver = self.dump_field /             *)
(* self.load_field; without the field, field_archiver is left to default.  *)
(***************************************************************************)
\* a faulty areadinto: buf[idx] = self.buffer.pop(), taking from the end
areadinto_pop_last(w, buf) ==
    LET ln == Len(buf)
        have == Len(w.buffer)
        nread == Min(ln, have)
    IN  [buf   |-> [i \in 1..nread |-> w.buffer[have + 1 - i]] \o SubSeq(buf, nread + 1, ln),
         io    |-> [w EXCEPT !.buffer = SubSeq(w.buffer, 1, have - nread)],
         nread |-> nread]

\* areadinto(buf): fills buf's first nread slots from the front of the
\* buffer and returns nread; it never raises
areadinto(w, buf) ==
    LET ln == Len(buf)
        nread == Min(ln, Len(w.buffer))
    IN  [buf   |-> SubSeq(w.buffer, 1, nread) \o SubSeq(buf, nread + 1, ln),
         io    |-> [w EXCEPT !.buffer = SubSeq(w.buffer, nread + 1, Len(w.buffer))],
         nread |-> nread]

\* awrite(buf): the buffer extended by buf
awrite(w, buf) == [w EXCEPT !.buffer = w.buffer \o buf]

\* bytearray(n)
Zeros(n) == [i \in 1..n |-> 0]

Ok(w) == [st |-> "ok", io |-> w]

OkVal(v, w) == [st |-> "ok", val |-> v, io |-> w]

Raise(e, v, w) == [st |-> e, val |-> v, io |-> w]

Fail(e, w) == [st |-> e, io |-> w]

(***************************************************************************)
(* Fixed-width integers: load_uint / dump_uint, one byte at a time through *)
(* the scratch buffer.                                                     *)
(***************************************************************************)
RECURSIVE load_uint_loop(_, _, _, _)

\* result += buffer[0] << shift; shift += 8   (r: what areadinto returned)
load_uint_acc(r, left, result, shift) ==
    load_uint_loop([r.io EXCEPT !.ub = r.buf], left - 1,
                   BigAdd(result, BigShl(r.buf[1], shift)), shift + 8)

load_uint_loop(w, left, result, shift) ==
    IF left = 0 THEN OkVal(PyInt(result), w)
    ELSE load_uint_acc(areadinto(w, w.ub), left, result, shift)

load_uint(w, width) == load_uint_loop(w, width, <<>>, 0)

RECURSIVE dump_uint_loop(_, _, _)

\* a faulty dump_uint: n >>= 7, the shift of the varint encoder
dump_uint_byte_shift7(w, buffer, n, left) ==
    dump_uint_loop(awrite([w EXCEPT !.ub = buffer], buffer), BigShr(n, 7), left - 1)

\* buffer[0] = n & 0xff; await writer.awrite(buffer); n >>= 8
dump_uint_byte(w, buffer, n, left) ==
    dump_uint_loop(awrite([w EXCEPT !.ub = buffer], buffer), BigShr(n, 8), left - 1)

dump_uint_loop(w, n, left) ==
    IF left = 0 THEN Ok(w)
    ELSE dump_uint_byte(w, <<BigLowBits(n, 8)>>, n, left)

dump_uint(w, n, width) == dump_uint_loop(w, n.n, width)

(***************************************************************************)
(* Unsigned varints (protobuf.load_uvarint / dump_uvarint): 7-bit groups,  *)
(* low-order group first, high bit set while more groups follow.           *)
(***************************************************************************)
RECURSIVE UvarintBytes(_)

UvarintGroup(low, shifted) ==
    IF shifted = <<>> THEN <<low>>
    ELSE <<low + 128>> \o UvarintBytes(shifted)

UvarintBytes(n) == UvarintGroup(BigLowBits(n, 7), BigShr(n, 7))

dump_uvarint(w, n) == Ok(awrite(w, UvarintBytes(n.n)))

RECURSIVE load_uvarint_loop(_, _, _)

load_uvarint_group(byte, w2, result, shift) ==
    IF byte >= 128 THEN load_uvarint_loop(w2, result, shift + 7)
    ELSE OkVal(PyInt(result), w2)

\* A stream that ends inside a varint leaves the decoder without a byte to
\* decide on: the outcome is "undef".
load_uvarint_loop(w, result, shift) ==
    IF w.buffer = <<>> THEN Raise("undef", None, w)
    ELSE load_uvarint_group(Head(w.buffer), [w EXCEPT !.buffer = Tail(w.buffer)],
                            BigAdd(result, BigShl(Head(w.buffer) % 128, shift)), shift)

load_uvarint(w) == load_uvarint_loop(w, <<>>, 0)

(***************************************************************************)
(* UTF-8: bytes(s, 'utf8') and str(b, 'utf8') for code points below 2^16   *)
(***************************************************************************)
Utf8Char(c) ==
    IF c < 128 THEN <<c>>
    ELSE IF c < 2048 THEN <<192 + (c \div 64), 128 + (c % 64)>>
    ELSE <<224 + (c \div 4096), 128 + ((c \div 64) % 64), 128 + (c % 64)>>

RECURSIVE Utf8Encode(_)
Utf8Encode(s) == IF s = <<>> THEN <<>> ELSE Utf8Char(Head(s)) \o Utf8Encode(Tail(s))

IsCont(b, i) == i <= Len(b) /\ b[i] >= 128 /\ b[i] < 192

\* the length of the sequence a lead byte announces, 0 for an invalid lead
Utf8Len(h) ==
    IF h < 128 THEN 1
    ELSE IF h >= 194 /\ h < 224 THEN 2
    ELSE IF h >= 224 /\ h < 240 THEN 3
    ELSE 0

Utf8Code(b, n) ==
    IF n = 1 THEN b[1]
    ELSE IF n = 2 THEN (b[1] - 192) * 64 + (b[2] - 128)
    ELSE (b[1] - 224) * 4096 + (b[2] - 128) * 64 + (b[3] - 128)

\* truncated sequence, bad continuation byte, overlong form or surrogate
Utf8Bad(b, n) ==
    \/ n = 0
    \/ \E i \in 2..n : ~IsCont(b, i)
    \/ n = 3 /\ (Utf8Code(b, n) < 2048 \/ Utf8Code(b, n) \in 55296..57343)

RECURSIVE Utf8DecodeAcc(_, _)

Utf8DecodeSeq(b, n, acc) ==
    IF Utf8Bad(b, n) THEN [ok |-> FALSE, v |-> <<>>]
    ELSE Utf8DecodeAcc(SubSeq(b, n + 1, Len(b)), Append(acc, Utf8Code(b, n)))

Utf8DecodeAcc(b, acc) ==
    IF b = <<>> THEN [ok |-> TRUE, v |-> acc]
    ELSE Utf8DecodeSeq(b, Utf8Len(b[1]), acc)

\* [ok, v]: the code points of b, or ok = FALSE where Python raises
\* UnicodeDecodeError
Utf8Decode(b) == Utf8DecodeAcc(b, <<>>)

(***************************************************************************)
(* Type descriptors (the classes of the schema).  kind is the base class   *)
(* issubclass() dispatches on.                                             *)
(***************************************************************************)
UVarintType == [kind |-> "uvarint"]

IntType(name, width, signed) ==
    [kind |-> "int", name |-> name, WIDTH |-> width, SIGNED |-> signed]

UInt8 == IntType("UInt8", 1, 0)

UInt16 == IntType("UInt16", 2, 0)

UInt32 == IntType("UInt32", 4, 0)

UInt64 == IntType("UInt64", 8, 0)

BlobType(name, fix_size, size) ==
    [kind |-> "blob", name |-> name, FIX_SIZE |-> fix_size, SIZE |-> size]

UnicodeType == [kind |-> "text"]

ContainerType(name, fix_size, size, elem_type) ==
    [kind |-> "container", name |-> name, FIX_SIZE |-> fix_size, SIZE |-> size,
     ELEM_TYPE |-> elem_type]

VariantType(name, fields) == [kind |-> "variant", name |-> name, FIELDS |-> fields]

MessageType(name, fields, code) ==
    [kind |-> "message", name |-> name, FIELDS |-> fields, VARIANT_CODE |-> code]

DATA_ATTR == "data"

\* x.__class__
ClassOf(x) == IF x.k = "obj" THEN x.cls ELSE [kind |-> "builtin", name |-> x.k]

HasVariantCode(cls) == "VARIANT_CODE" \in DOMAIN cls

\* isinstance(x, BlobType)
IsBlobObj(x) == x.k = "obj" /\ x.cls.kind = "blob"

\* msg_type(), elem_type(): a new object (VariantType.__init__ sets its two
\* attributes to None)
NewObj(cls) ==
    IF cls.kind = "variant"
    THEN PyObj(cls, "new", [x \in {"variant_elem", "variant_elem_type"} |-> None])
    ELSE PyObj(cls, "new", NoAttrs)

PyName(s) == [k |-> "name", name |-> s]

PyClass(c) == [k |-> "class", cls |-> c]

\* VariantType.set_variant
set_variant(elem, fname, fvalue) ==
    SetAttr(SetAttr(SetAttr(elem, "variant_elem", PyName(fname)),
                    "variant_elem_type", PyClass(ClassOf(fvalue))),
            fname, fvalue)

\* field[2:], params[1:] if params else None (None and () are both falsy)
FieldParams(field) == SubSeq(field, 3, Len(field))

RestParams(params) == IF params = <<>> THEN <<>> ELSE Tail(params)

\* params[0] if params else None; if None: container_type.ELEM_TYPE
ElemTypeOf(container_type, params) ==
    IF params = <<>> THEN container_type.ELEM_TYPE ELSE params[1]

\* the number an int of at most two limbs stands for
ToNat(a) == Limb(a, 1) + Limb(a, 2) * LimbBase

(***************************************************************************)
(* dump_*: every operator returns [st, io]; io.buffer holds what was       *)
(* written up to the exception when st is not "ok".  An operator named     *)
(* f_x is the part of function f that follows the call whose result it     *)
(* takes as its first parameters.                                          *)
(***************************************************************************)
RECURSIVE dump_field(_, _, _, _)
RECURSIVE archive_field_dump(_, _, _, _)
RECURSIVE dump_container_loop(_, _, _, _, _)
RECURSIVE dump_message_loop(_, _, _, _)

\* Archive(iobj, writing)
Archive(iobj) == [buffer |-> iobj.buffer, ub |-> iobj.ub, archive |-> TRUE]

IsArchive(w) == "archive" \in DOMAIN w

\* field_archiver = field_archiver if field_archiver else dump_field
dump_field_archiver(w, elem, elem_type, params) ==
    IF IsArchive(w) THEN archive_field_dump(w, elem, elem_type, params)
    ELSE dump_field(w, elem, elem_type, params)

\* the bytes of a blob held as bytearray/bytes or as a list of ints
BlobData(data) ==
    IF data.k = "bytes" THEN data.b
    ELSE [i \in 1..Len(data.items) |-> ToNat(data.items[i].n)]

\* len(elem) raises TypeError for an object without __len__
HasLen(x) == x.k \in {"bytes", "list", "str"}

\* if not FIX_SIZE: await dump_uvarint(writer, len(x))
dump_size(w, type, x) ==
    IF type.FIX_SIZE THEN w ELSE dump_uvarint(w, PyInt(Big(PyLen(x)))).io

\* await writer.awrite(data)
dump_blob_write(w1, data) ==
    IF data.k \in {"bytes", "list"} THEN Ok(awrite(w1, BlobData(data)))
    ELSE Fail("TypeError", w1)

\* data = getattr(elem, BlobType.DATA_ATTR) if isinstance(elem, BlobType) else elem
dump_blob_data(w1, elem) ==
    IF IsBlobObj(elem) /\ ~HasAttr(elem, DATA_ATTR) THEN Fail("AttributeError", w1)
    ELSE dump_blob_write(w1, IF IsBlobObj(elem) THEN GetAttr(elem, DATA_ATTR) ELSE elem)

dump_blob(w, elem, elem_type, params) ==
    IF ~elem_type.FIX_SIZE /\ ~HasLen(elem) THEN Fail("TypeError", w)
    ELSE dump_blob_data(dump_size(w, elem_type, elem), elem)

dump_container_next(r, items, elem_type, params, i) ==
    IF r.st # "ok" THEN r
    ELSE dump_container_loop(r.io, items, elem_type, params, i + 1)

dump_container_loop(w, items, elem_type, params, i) ==
    IF i > Len(items) THEN Ok(w)
    ELSE dump_container_next(dump_field_archiver(w, items[i], elem_type,
                                                 RestParams(params)),
                             items, elem_type, params, i)

dump_container(w, container, container_type, params) ==
    IF container.k # "list" THEN Fail("TypeError", w)
    ELSE dump_container_loop(dump_size(w, container_type, container), container.items,
                             ElemTypeOf(container_type, params), params, 1)

dump_message_field(w, msg, field) ==
    dump_field_archiver(w, GetAttr(msg, field[1]), field[2], FieldParams(field))

dump_message_next(r, msg, fields, i) ==
    IF r.st # "ok" THEN r ELSE dump_message_loop(r.io, msg, fields, i + 1)

dump_message_loop(w, msg, fields, i) ==
    IF i > Len(fields) THEN Ok(w)
    ELSE dump_message_next(dump_message_field(w, msg, fields[i]), msg, fields, i)

\* a faulty dump_message: for field in reversed(fields)
dump_message_reversed(w, msg) ==
    LET fields == ClassOf(msg).FIELDS
    IN  dump_message_loop(w, msg, [i \in 1..Len(fields) |-> fields[Len(fields) + 1 - i]], 1)

dump_message(w, msg) == dump_message_loop(w, msg, ClassOf(msg).FIELDS, 1)

\* elem.variant_elem_type.VARIANT_CODE, getattr(elem, elem.variant_elem)
dump_variant_alt(w, elem, vt) ==
    IF vt.k # "class" \/ ~HasVariantCode(vt.cls) THEN Fail("AttributeError", w)
    ELSE dump_field_archiver(dump_uvarint(w, PyInt(Big(vt.cls.VARIANT_CODE))).io,
                             GetAttr(elem, GetAttr(elem, "variant_elem").name), vt.cls, <<>>)

dump_variant(w, elem, elem_type, params) ==
    dump_variant_alt(w, elem, GetAttr(elem, "variant_elem_type"))

\* the text branch of dump_field:
\* await dump_uvarint(writer, len(elem)); await writer.awrite(bytes(elem, 'utf8'))
dump_unicode(w, elem) ==
    IF elem.k # "str" THEN Fail("TypeError", w)
    ELSE Ok(awrite(dump_uvarint(w, PyInt(Big(Len(elem.s)))).io, Utf8Encode(elem.s)))

dump_field(w, elem, elem_type, params) ==
    CASE elem_type.kind = "uvarint" ->
            IF elem.k = "int" THEN dump_uvarint(w, elem) ELSE Fail("TypeError", w)
      [] elem_type.kind = "int" ->
            IF elem.k = "int" THEN dump_uint(w, elem, elem_type.WIDTH)
            ELSE Fail("TypeError", w)
      [] elem_type.kind = "blob" -> dump_blob(w, elem, elem_type, params)
      [] elem_type.kind = "text" -> dump_unicode(w, elem)
      [] elem_type.kind = "variant" ->
            IF elem.k = "obj" THEN dump_variant(w, elem, elem_type, params)
            ELSE Fail("AttributeError", w)
      [] elem_type.kind = "container" -> dump_container(w, elem, elem_type, params)
      [] elem_type.kind = "message" ->
            IF elem.k = "obj" /\ elem.cls.kind = "message" THEN dump_message(w, elem)
            ELSE Fail("AttributeError", w)
      [] OTHER -> Fail("TypeError", w)

\* Archive.field with writing = True: uvarint, uint, unicode_type, blob,
\* variant, container and message of the Archive
archive_field_dump(w, elem, elem_type, params) ==
    CASE elem_type.kind = "uvarint" ->
            IF elem.k = "int" THEN dump_uvarint(w, elem) ELSE Fail("TypeError", w)
      [] elem_type.kind = "int" ->
            IF elem.k = "int" THEN dump_uint(w, elem, elem_type.WIDTH)
            ELSE Fail("TypeError", w)
      [] elem_type.kind = "blob" -> dump_blob(w, elem, elem_type, params)
      [] elem_type.kind = "text" -> dump_unicode(w, elem)
      [] elem_type.kind = "variant" ->
            IF elem.k = "obj" THEN dump_variant(w, elem, elem_type, params)
            ELSE Fail("AttributeError", w)
      [] elem_type.kind = "container" -> dump_container(w, elem, elem_type, params)
      [] elem_type.kind = "message" ->
            IF elem.k = "obj" /\ elem.cls.kind = "message" THEN dump_message(w, elem)
            ELSE Fail("AttributeError", w)
      [] OTHER -> Fail("TypeError", w)

(***************************************************************************)
(* load_*: every operator returns [st, val, io].  elem is the content of   *)
(* the slot the caller references (get_elem: the attribute's value, None   *)
(* when the attribute is unset, or the list element); the caller stores    *)
(* val back into the slot (set_elem).  When st is not "ok", val is the     *)
(* target as the exception left it.                                        *)
(***************************************************************************)
RECURSIVE load_field(_, _, _, _)
RECURSIVE archive_field_load(_, _, _, _)
RECURSIVE load_container_loop(_, _, _, _, _, _, _)
RECURSIVE load_message_loop(_, _, _, _)
RECURSIVE load_variant_loop(_, _, _, _, _)

\* field_archiver = field_archiver if field_archiver else load_field
load_field_archiver(w, elem_type, params, elem) ==
    IF IsArchive(w) THEN archive_field_load(w, elem_type, params, elem)
    ELSE load_field(w, elem_type, params, elem)

\* type.SIZE if type.FIX_SIZE else await load_uvarint(reader)
load_size(w, type) ==
    IF type.FIX_SIZE THEN OkVal(PyInt(Big(type.SIZE)), w) ELSE load_uvarint(w)

\* the end of load_blob; r is what areadinto(fvalue) returned, r.buf is fvalue
load_blob_store(r, elem) ==
    IF elem.k = "None" THEN OkVal(PyBytes(r.buf), r.io)
    ELSE IF IsBlobObj(elem) THEN OkVal(SetAttr(elem, DATA_ATTR, PyBytes(r.buf)), r.io)
    ELSE IF elem.k = "bytes" THEN OkVal(PyBytes(elem.b \o r.buf), r.io)
    ELSE IF elem.k = "list"
    THEN OkVal(PyList(elem.items \o [i \in 1..Len(r.buf) |-> PyInt(Big(r.buf[i]))]), r.io)
    ELSE Raise("AttributeError", elem, r.io)

\* fvalue = bytearray(ivalue); await reader.areadinto(fvalue)
load_blob_read(lr, elem) ==
    IF lr.st # "ok" THEN Raise(lr.st, elem, lr.io)
    ELSE load_blob_store(areadinto(lr.io, Zeros(ToNat(lr.val.n))), elem)

load_blob(w, elem_type, params, elem) == load_blob_read(load_size(w, elem_type), elem)

\* a faulty load_container: res.insert(0, fvalue) in place of res.append(fvalue)
Stored_insert_first(res, inplace, i, fvalue) ==
    IF inplace THEN [res EXCEPT ![i] = fvalue] ELSE <<fvalue>> \o res

\* res after the element at i was loaded: set through (ElemRefArr, res, i) when
\* a non-empty container was given, appended otherwise
Stored(res, inplace, i, fvalue) ==
    IF inplace THEN [res EXCEPT ![i] = fvalue] ELSE Append(res, fvalue)

load_container_next(r, res, inplace, c_len, elem_type, params, i) ==
    IF r.st # "ok"
    THEN Raise(r.st, PyList(IF inplace /\ r.val.k # "None"
                            THEN Stored(res, inplace, i, r.val) ELSE res), r.io)
    ELSE load_container_loop(r.io, Stored(res, inplace, i, r.val), inplace, c_len,
                             elem_type, params, i + 1)

\* One iteration of the loop of load_container; inplace is the truth of
\* `container`, res the list being filled.
load_container_loop(w, res, inplace, c_len, elem_type, params, i) ==
    IF i > c_len THEN OkVal(PyList(res), w)
    ELSE load_container_next(load_field_archiver(w, elem_type, RestParams(params),
                                        IF inplace THEN res[i] ELSE None),
                             res, inplace, c_len, elem_type, params, i)

\* a faulty load_container: the size check written as c_len > len(container)
load_container_check_gt(lr, container_type, params, container) ==
    IF lr.st # "ok" THEN Raise(lr.st, container, lr.io)
    ELSE IF Truthy(container) /\ ToNat(lr.val.n) > PyLen(container)
    THEN Raise("ValueError", container, lr.io)
    ELSE load_container_loop(lr.io, IF Truthy(container) THEN container.items ELSE <<>>,
                             Truthy(container), ToNat(lr.val.n),
                             ElemTypeOf(container_type, params), params, 1)

\* if container and c_len != len(container): raise ValueError('Size mismatch')
load_container_check(lr, container_type, params, container) ==
    IF lr.st # "ok" THEN Raise(lr.st, container, lr.io)
    ELSE IF Truthy(container) /\ ToNat(lr.val.n) # PyLen(container)
    THEN Raise("ValueError", container, lr.io)
    ELSE load_container_loop(lr.io, IF Truthy(container) THEN container.items ELSE <<>>,
                             Truthy(container), ToNat(lr.val.n),
                             ElemTypeOf(container_type, params), params, 1)

load_container(w, container_type, params, container) ==
    load_container_check(load_size(w, container_type), container_type, params, container)

\* set_elem((ElemRefObj, msg, fname), fvalue)
load_message_set(r, msg, fname) ==
    IF r.st = "ok" THEN OkVal(SetAttr(msg, fname, r.val), r.io)
    ELSE IF HasAttr(msg, fname) /\ r.val.k # "None"
    THEN Raise(r.st, SetAttr(msg, fname, r.val), r.io)
    ELSE Raise(r.st, msg, r.io)

\* load_message_field: the field is read through (ElemRefObj, msg, fname)
load_message_field(w, msg, field) ==
    load_message_set(load_field_archiver(w, field[2], FieldParams(field),
                                         GetAttr(msg, field[1])),
                     msg, field[1])

load_message_next(r, fields, i) ==
    IF r.st # "ok" THEN r ELSE load_message_loop(r.io, r.val, fields, i + 1)

load_message_loop(w, msg, fields, i) ==
    IF i > Len(fields) THEN OkVal(msg, w)
    ELSE load_message_next(load_message_field(w, msg, fields[i]), fields, i)

load_message(w, msg_type, msg) ==
    load_message_loop(w, IF msg.k = "None" THEN NewObj(msg_type) ELSE msg,
                      msg_type.FIELDS, 1)

\* elem.set_variant(fname, fvalue)
load_variant_set(r, elem, fields, tag, i) ==
    IF r.st # "ok" THEN Raise(r.st, elem, r.io)
    ELSE load_variant_loop(r.io, set_variant(elem, fields[i][1], r.val), fields, tag, i + 1)

\* The loop over elem_type.FIELDS of load_variant: every field whose
\* VARIANT_CODE equals the tag is decoded and set; the loop has no break and
\* nothing follows it but `return elem`.
load_variant_loop(w, elem, fields, tag, i) ==
    IF i > Len(fields) THEN OkVal(elem, w)
    ELSE IF ~HasVariantCode(fields[i][2]) THEN Raise("AttributeError", elem, w)
    ELSE IF Big(fields[i][2].VARIANT_CODE) = tag
    THEN load_variant_set(load_field_archiver(w, fields[i][2], FieldParams(fields[i]), None),
                          elem, fields, tag, i)
    ELSE load_variant_loop(w, elem, fields, tag, i + 1)

\* tag = await load_uvarint(reader)
load_variant_tag(lr, elem, fields) ==
    IF lr.st # "ok" THEN Raise(lr.st, elem, lr.io)
    ELSE load_variant_loop(lr.io, elem, fields, lr.val.n, 1)

load_variant(w, elem_type, params, elem) ==
    load_variant_tag(load_uvarint(w), IF elem.k = "None" THEN NewObj(elem_type) ELSE elem,
                     elem_type.FIELDS)

\* fvalue = str(fvalue, 'utf8')
load_unicode_str(d, w) ==
    IF d.ok THEN OkVal(PyStr(d.v), w) ELSE Raise("UnicodeDecodeError", None, w)

\* fvalue = bytearray(ivalue); await reader.areadinto(fvalue)
load_unicode_read(r) == load_unicode_str(Utf8Decode(r.buf), r.io)

\* the text branch of load_field
load_unicode_len(lr) ==
    IF lr.st # "ok" THEN Raise(lr.st, None, lr.io)
    ELSE load_unicode_read(areadinto(lr.io, Zeros(ToNat(lr.val.n))))

load_unicode(w) == load_unicode_len(load_uvarint(w))

load_field(w, elem_type, params, elem) ==
    CASE elem_type.kind = "uvarint" -> load_uvarint(w)
      [] elem_type.kind = "int" -> load_uint(w, elem_type.WIDTH)
      [] elem_type.kind = "blob" -> load_blob(w, elem_type, params, elem)
      [] elem_type.kind = "text" -> load_unicode(w)
      [] elem_type.kind = "variant" -> load_variant(w, elem_type, params, elem)
      [] elem_type.kind = "container" -> load_container(w, elem_type, params, elem)
      [] elem_type.kind = "message" -> load_message(w, elem_type, elem)
      [] OTHER -> Raise("TypeError", elem, w)

\* Archive.field with writing = False.  Archive.message(msg) takes the type
\* from msg.__class__: with msg None, load_message is called with
\* msg_type = NoneType, NoneType() is None, and msg_type.FIELDS raises
\* AttributeError.
archive_field_load(w, elem_type, params, elem) ==
    CASE elem_type.kind = "uvarint" -> load_uvarint(w)
      [] elem_type.kind = "int" -> load_uint(w, elem_type.WIDTH)
      [] elem_type.kind = "blob" -> load_blob(w, elem_type, params, elem)
      [] elem_type.kind = "text" -> load_unicode(w)
      [] elem_type.kind = "variant" -> load_variant(w, elem_type, params, elem)
      [] elem_type.kind = "container" -> load_container(w, elem_type, params, elem)
      [] elem_type.kind = "message" ->
            IF elem.k = "None" THEN Raise("AttributeError", None, w)
            ELSE load_message(w, ClassOf(elem), elem)
      [] OTHER -> Raise("TypeError", elem, w)

(***************************************************************************)
(* The schema the codec is driven with: the message types of the tests     *)
(* (TxinGen, TxinToKey, ECPoint) and a message with one field of each      *)
(* remaining kind.                                                         *)
(***************************************************************************)
\* ECPoint.SIZE
ECPointSize == 32

ECPoint == BlobType("ECPoint", TRUE, ECPointSize)

VarBlob == BlobType("BlobType", FALSE, 0)

TxinGen == MessageType("TxinGen", << <<"height", UVarintType>> >>, 255)

KeyOffsets == ContainerType("ContainerType", FALSE, 0, UVarintType)

TxinToKey ==
    MessageType("TxinToKey",
                << <<"amount", UVarintType>>,
                   <<"key_offsets", KeyOffsets>>,
                   <<"k_image", ECPoint>> >>, 2)

TxInV == VariantType("TxInV", << <<"txin_gen", TxinGen>>, <<"txin_to_key", TxinToKey>> >>)

\* a variant whose two alternatives carry the same VARIANT_CODE
DupV ==
    VariantType("DupV", << <<"first", TxinGen>>,
                           <<"second", MessageType("TxinGenB", << <<"amount", UVarintType>> >>,
                                                   TxinGen.VARIANT_CODE)>> >>)

VinList == ContainerType("ContainerType", FALSE, 0, TxInV)

\* the element type is given by the field's first param, as in
\* ('extra', ContainerType, UInt8)
AnyList == ContainerType("ContainerType", FALSE, 0, None)

Tx ==
    MessageType("Tx",
                << <<"version", UInt32>>,
                   <<"extra", VarBlob>>,
                   <<"gen", TxinGen>>,
                   <<"vin", VinList>>,
                   <<"sizes", AnyList, UInt16>> >>, 3)

(***************************************************************************)
(* Inputs.  MaxLen bounds the length of the containers, variable blobs and *)
(* texts the driver builds.                                                *)
(***************************************************************************)
MaxLen == 2

SeqsUpTo(S, n) == UNION {[1..m -> S] : m \in 0..n}

Range(n) == [i \in 1..n |-> i - 1]

\* bytearray(range(32)), as in the tests
EcData == Range(ECPointSize)

IntsOf(S) == {PyInt(x) : x \in S}

\* MessageType.__init__(**kwargs) / VariantType.__init__(**kwargs)
Msg(cls, id, attrs) == PyObj(cls, id, attrs)

Variant(cls, id, fname, fvalue) ==
    set_variant([NewObj(cls) EXCEPT !.id = id], fname, fvalue)

TxinGenVals == {Msg(TxinGen, "v", [height |-> h]) : h \in IntsOf({Big(42), BigPow2(76)})}

TxinToKeyVals ==
    {Msg(TxinToKey, "v", [amount |-> a, key_offsets |-> PyList(ko), k_image |-> PyBytes(ki)]) :
        a \in IntsOf({Big(123)}),
        ko \in SeqsUpTo(IntsOf({Big(1), BigPow2(76)}), MaxLen),
        ki \in {EcData}}

TxInVVals ==
    {Variant(TxInV, "v", "txin_gen", Msg(TxinGen, "v", [height |-> PyInt(Big(300))])),
     Variant(TxInV, "v", "txin_to_key",
             Msg(TxinToKey, "v", [amount |-> PyInt(<<>>),
                                  key_offsets |-> PyList(<<PyInt(Big(3))>>),
                                  k_image |-> PyBytes(EcData)]))}

\* blobs: a bytearray, or (BlobType's docstring) a list of values
VarBlobVals ==
    {PyBytes(b) : b \in SeqsUpTo({0, 200}, MaxLen)} \cup {PyList(<<PyInt(Big(7))>>)}

TxVals ==
    {Msg(Tx, "v", [version |-> n, extra |-> e, gen |-> g, vin |-> PyList(vin),
                   sizes |-> PyList(sz)]) :
        n \in IntsOf({<<>>, BigPred(BigPow2(32))}),
        e \in VarBlobVals,
        g \in {Msg(TxinGen, "v", [height |-> PyInt(Big(42))])},
        vin \in SeqsUpTo(TxInVVals, MaxLen),
        sz \in SeqsUpTo(IntsOf({BigPred(BigPow2(16))}), MaxLen)}

\* TxinToKey(amount=123, key_offsets=[1, 2, 3, 2**76], k_image=bytearray(range(32)))
TestTxinToKey ==
    Msg(TxinToKey, "v", [amount |-> PyInt(Big(123)),
                         key_offsets |-> PyList(<<PyInt(Big(1)), PyInt(Big(2)), PyInt(Big(3)),
                                                  PyInt(BigPow2(76))>>),
                         k_image |-> PyBytes(EcData)])

MessageVals == TxinGenVals \cup TxinToKeyVals \cup TxVals \cup {TestTxinToKey}

\* Targets a caller passes as msg=: a newly constructed object, and objects
\* that already hold values.
Targets(cls) ==
    {Msg(cls, "t", NoAttrs)} \cup
    (CASE cls.name = "TxinGen" ->
            {Msg(TxinGen, "t", [height |-> PyInt(Big(7))])}
       [] cls.name = "TxinToKey" ->
            {Msg(TxinToKey, "t", [amount |-> PyInt(Big(7)), key_offsets |-> PyList(ko),
                                  k_image |-> ki]) :
                ko \in {<<>>, <<PyInt(Big(9))>>},
                ki \in {PyBytes(<<>>), PyBytes(<<9>>), PyObj(ECPoint, "w", NoAttrs)}}
       [] cls.name = "Tx" ->
            {Msg(Tx, "t", [version |-> PyInt(Big(1)), extra |-> PyBytes(<<>>),
                           gen |-> Msg(TxinGen, "g", [height |-> PyInt(Big(7))]),
                           vin |-> PyList(vin), sizes |-> PyList(<<>>)]) :
                vin \in {<<>>} \cup {<<x>> : x \in TxInVVals}}
       [] OTHER -> {})

MessageTypes == {TxinGen, TxinToKey, Tx}

Widths == {1, 2, 4, 8}

\* for each width: 0, 1, the largest value, the top bit alone, and a value
\* whose bytes all differ; every value of a single byte
UintVals(width) ==
    {<<>>, Big(1), BigPred(BigPow2(8 * width)), BigPow2(8 * width - 1)} \cup
    (CASE width = 1 -> {Big(i) : i \in 0..255}
       [] width = 2 -> {Big(258)}
       [] width = 4 -> {<<772, 258>>}
       [] width = 8 -> {<<1800, 1286, 772, 258>>})

UintInputs == {<<PyInt(n), width>> : n \in UNION {UintVals(x) : x \in Widths}, width \in Widths}

\* a BlobType wrapper object holding its bytes in the attribute 'data'
Wrapped(cls, id, bs) == PyObj(cls, id, [x \in {DATA_ATTR} |-> PyBytes(bs)])

BlobInputs ==
    {<<e, ECPoint>> : e \in {PyBytes(EcData), Wrapped(ECPoint, "v", EcData),
                             PyBytes(Range(10)), Wrapped(ECPoint, "v", Range(10)),
                             PyBytes(<<>>)}} \cup
    {<<e, VarBlob>> : e \in VarBlobVals \cup
                            {Wrapped(VarBlob, "v", b) : b \in SeqsUpTo({0, 200}, MaxLen)}}

BlobTargets(cls) == {None, PyObj(cls, "t", NoAttrs), PyBytes(<<>>), PyBytes(<<9>>)}

\* 'A', e-acute (2 bytes in UTF-8), the euro sign (3 bytes)
TextVals == {PyStr(x) : x \in SeqsUpTo({65, 233, 8364}, MaxLen)}

\* a container of fixed size: MaxLen elements and no count on the wire
FixList == ContainerType("FixList", TRUE, MaxLen, UVarintType)

ContainerInputs ==
    {<<PyList([i \in 1..MaxLen |-> PyInt(Big(i))]), FixList, <<>> >>} \cup
    {<<PyList(x), KeyOffsets, <<>> >> : x \in SeqsUpTo(IntsOf({Big(1), Big(300)}), MaxLen)} \cup
    {<<PyList(x), AnyList, <<UInt16>> >> : x \in SeqsUpTo(IntsOf({Big(258)}), MaxLen)}

ContainerTargets ==
    {None} \cup {PyList(x) : x \in SeqsUpTo(IntsOf({Big(9)}), MaxLen + 1)}

FieldInputs ==
    {<<t, UnicodeType, <<>> >> : t \in TextVals} \cup
    {<<v, TxInV, <<>> >> : v \in TxInVVals} \cup
    {<<PyInt(Big(300)), UVarintType, <<>> >>}

\* well-formed values of every kind of type, with their types and params
WellFormedInputs ==
    FieldInputs \cup
    {<<m, ClassOf(m), <<>> >> : m \in TxinGenVals \cup {TestTxinToKey}} \cup
    {<<PyBytes(EcData), ECPoint, <<>> >>, <<PyInt(Big(258)), UInt16, <<>> >>,
     <<PyList(<<PyInt(Big(1)), PyInt(Big(300))>>), KeyOffsets, <<>> >>}

\* streams handed to MemoryReaderWriter(buffer) for decoding
InitBuffers ==
    {<<>>, Range(10), <<5>>, <<255, 1, 42>>, <<2, 7, 100>>, <<1, 65>>,
     <<2, 195, 169>>, <<1, 195>>, <<255, 1, 42, 7>>}

\* the streams among them that are decoded as a text field
TextStreams == {b \in InitBuffers : b = <<>> \/ Head(b) <= 5}

NoCall == [fn |-> "none"]

(***************************************************************************)
(* The sequential driver: one MemoryReaderWriter, at most one dump onto    *)
(* an empty writer followed by one load from the same buffer (as the       *)
(* tests do), or one load from a given stream.                             *)
(***************************************************************************)
InitSeq ==
    /\ pc = "new"
    /\ io \in {[buffer |-> b, ub |-> <<0>>] : b \in InitBuffers}
    /\ dumped = NoCall
    /\ loaded = NoCall

InitTasksIdle ==
    /\ tpc = <<>>
    /\ tn = <<>>
    /\ tleft = <<>>
    /\ tshift = <<>>
    /\ tbuf = <<>>
    /\ tin = <<>>
    /\ ubuf = <<0>>

InitQueueIdle ==
    /\ written = <<>>
    /\ delivered = <<>>

Init == InitSeq /\ InitTasksIdle /\ InitQueueIdle

CanDump == pc = "new" /\ io.buffer = <<>>

CanLoad(fn) == pc = "new" \/ (pc = "dumped" /\ dumped.fn = fn /\ dumped.st = "ok")

DidDump(fn, elem, type, params, r) ==
    /\ io' = r.io
    /\ dumped' = [fn |-> fn, elem |-> elem, type |-> type, params |-> params,
                  st |-> r.st, out |-> r.io.buffer]
    /\ pc' = "dumped"
    /\ UNCHANGED <<loaded, taskvars, queuevars>>

DidLoad(fn, type, params, elem, r) ==
    /\ io' = r.io
    /\ loaded' = [fn |-> fn, type |-> type, params |-> params, elem |-> elem,
                  st |-> r.st, val |-> r.val, before |-> io.buffer]
    /\ pc' = "loaded"
    /\ UNCHANGED <<dumped, taskvars, queuevars>>

DumpMessage ==
    /\ CanDump
    /\ \E v \in MessageVals :
        DidDump("dump_message", v, ClassOf(v), <<>>, dump_message(io, v))

LoadMessage ==
    /\ CanLoad("dump_message")
    /\ \E T \in (IF pc = "dumped" THEN {dumped.type} ELSE MessageTypes) :
        \E t \in {None} \cup Targets(T) :
            DidLoad("load_message", T, <<>>, t, load_message(io, T, t))

DumpBlob ==
    /\ CanDump
    /\ \E x \in BlobInputs :
        DidDump("dump_blob", x[1], x[2], <<>>, dump_blob(io, x[1], x[2], <<>>))

LoadBlob ==
    /\ CanLoad("dump_blob")
    /\ \E T \in (IF pc = "dumped" THEN {dumped.type} ELSE {ECPoint, VarBlob}) :
        \E t \in BlobTargets(T) :
            DidLoad("load_blob", T, <<>>, t, load_blob(io, T, <<>>, t))

DumpContainer ==
    /\ CanDump
    /\ \E x \in ContainerInputs :
        DidDump("dump_container", x[1], x[2], x[3], dump_container(io, x[1], x[2], x[3]))

LoadContainer ==
    /\ CanLoad("dump_container")
    /\ \E x \in (IF pc = "dumped" THEN {<<dumped.type, dumped.params>>}
                 ELSE {<<KeyOffsets, <<>> >>, <<FixList, <<>> >>}) :
        \E t \in ContainerTargets :
            DidLoad("load_container", x[1], x[2], t, load_container(io, x[1], x[2], t))

LoadVariant ==
    /\ pc = "new"
    /\ \E T \in {TxInV, DupV} :
        \E t \in {None} \cup (IF T = TxInV THEN {[v EXCEPT !.id = "t"] : v \in TxInVVals}
                               ELSE {}) :
            DidLoad("load_variant", T, <<>>, t, load_variant(io, T, <<>>, t))

DumpField ==
    /\ CanDump
    /\ \E x \in FieldInputs :
        DidDump("dump_field", x[1], x[2], x[3], dump_field(io, x[1], x[2], x[3]))

LoadField ==
    /\ CanLoad("dump_field")
    /\ pc = "new" => io.buffer \in TextStreams
    /\ \E x \in (IF pc = "dumped" THEN {<<dumped.type, dumped.params>>}
                 ELSE {<<UnicodeType, <<>> >>}) :
        DidLoad("load_field", x[1], x[2], None, load_field(io, x[1], x[2], None))

\* await Archive(writer, True).field(elem, elem_type, params)
ArchiveDump ==
    /\ CanDump
    /\ \E x \in WellFormedInputs :
        DidDump("Archive.field", x[1], x[2], x[3],
                archive_field_dump(Archive(io), x[1], x[2], x[3]))

\* await Archive(reader, False).field(elem, elem_type, params), elem None or
\* a target of the type
ArchiveLoad ==
    /\ CanLoad("Archive.field")
    /\ pc = "new" => io.buffer \in TextStreams
    /\ \E x \in (IF pc = "dumped" THEN {<<dumped.type, dumped.params>>}
                 ELSE {<<UnicodeType, <<>> >>, <<TxinGen, <<>> >>, <<KeyOffsets, <<>> >>}) :
        \E t \in {None} \cup (IF x[1].kind = "message" THEN Targets(x[1]) ELSE {}) :
            DidLoad("Archive.field", x[1], x[2], t,
                    archive_field_load(Archive(io), x[1], x[2], t))

DumpUint ==
    /\ CanDump
    /\ \E x \in UintInputs :
        DidDump("dump_uint", x[1], x[2], <<>>, dump_uint(io, x[1], x[2]))

LoadUint ==
    /\ CanLoad("dump_uint")
    /\ \E width \in (IF pc = "dumped" THEN {dumped.type} ELSE Widths) :
        DidLoad("load_uint", width, <<>>, None, load_uint(io, width))

Next ==
    \/ DumpMessage
    \/ LoadMessage
    \/ DumpBlob
    \/ LoadBlob
    \/ DumpContainer
    \/ LoadContainer
    \/ LoadVariant
    \/ DumpField
    \/ LoadField
    \/ DumpUint
    \/ LoadUint
    \/ ArchiveDump
    \/ ArchiveLoad

Spec == Init /\ [][Next]_vars

(***************************************************************************)
(* Cooperative tasks.  Each task runs one dump_uint or one load_uint on a  *)
(* transport of its own; all of them go through the one module-level       *)
(* _UINT_BUFFER (buffer = _UINT_BUFFER binds the same bytearray in every   *)
(* call).  A task runs until it awaits the transport: awrite may suspend   *)
(* before it has taken the bytes out of the buffer it was handed, and      *)
(* areadinto after it has put them in, so each of these is a step of its   *)
(* own and the scheduler picks which task steps next.                      *)
(***************************************************************************)
Tasks == {1, 2}

TaskWidths == {w \in Widths : w <= MaxLen}

\* the passes a task may be given: n and width to dump, or a stream and
\* width to load
TaskInputs ==
    {[kind |-> "dump", n |-> n, width |-> w, stream |-> <<>>] :
        n \in {Big(258), Big(7)}, w \in TaskWidths} \cup
    {[kind |-> "load", n |-> <<>>, width |-> w, stream |-> b] :
        b \in {<<1, 2>>, <<3, 4>>}, w \in TaskWidths}

InitTasks ==
    /\ pc = "tasks"
    /\ io = [buffer |-> <<>>, ub |-> <<0>>]
    /\ dumped = NoCall
    /\ loaded = NoCall
    /\ tin \in [Tasks -> TaskInputs]
    /\ tpc = [t \in Tasks |-> "loop"]
    /\ tn = [t \in Tasks |-> tin[t].n]
    /\ tleft = [t \in Tasks |-> tin[t].width]
    /\ tshift = [t \in Tasks |-> 0]
    /\ tbuf = [t \in Tasks |-> tin[t].stream]
    /\ ubuf = <<0>>
    /\ InitQueueIdle

\* the transport of task t together with the shared scratch buffer
TaskIo(t) == [buffer |-> tbuf[t], ub |-> ubuf]

\* dump_uint: buffer[0] = n & 0xff, then the call of writer.awrite(buffer)
DumpSet(t) ==
    /\ tpc[t] = "loop" /\ tin[t].kind = "dump" /\ tleft[t] > 0
    /\ ubuf' = <<BigLowBits(tn[t], 8)>>
    /\ tpc' = [tpc EXCEPT ![t] = "awrite"]
    /\ UNCHANGED <<seqvars, queuevars, tn, tleft, tshift, tbuf, tin>>

\* awrite takes the bytes that are in the buffer when it gets to run
AwriteCopy(t) ==
    /\ tpc[t] = "awrite"
    /\ tbuf' = [tbuf EXCEPT ![t] = awrite(TaskIo(t), ubuf).buffer]
    /\ tpc' = [tpc EXCEPT ![t] = "awrote"]
    /\ UNCHANGED <<seqvars, queuevars, tn, tleft, tshift, tin, ubuf>>

\* dump_uint resumes: n >>= 8 and the next iteration
DumpNext(t) ==
    /\ tpc[t] = "awrote"
    /\ tn' = [tn EXCEPT ![t] = BigShr(tn[t], 8)]
    /\ tleft' = [tleft EXCEPT ![t] = tleft[t] - 1]
    /\ tpc' = [tpc EXCEPT ![t] = "loop"]
    /\ UNCHANGED <<seqvars, queuevars, tshift, tbuf, tin, ubuf>>

\* load_uint: the call of reader.areadinto(buffer)
LoadCall(t) ==
    /\ tpc[t] = "loop" /\ tin[t].kind = "load" /\ tleft[t] > 0
    /\ tpc' = [tpc EXCEPT ![t] = "areadinto"]
    /\ UNCHANGED <<seqvars, queuevars, tn, tleft, tshift, tbuf, tin, ubuf>>

\* areadinto fills the buffer it was handed from the task's transport
AreadFill(t) ==
    /\ tpc[t] = "areadinto"
    /\ ubuf' = areadinto(TaskIo(t), ubuf).buf
    /\ tbuf' = [tbuf EXCEPT ![t] = areadinto(TaskIo(t), ubuf).io.buffer]
    /\ tpc' = [tpc EXCEPT ![t] = "aread"]
    /\ UNCHANGED <<seqvars, queuevars, tn, tleft, tshift, tin>>

\* load_uint resumes: result += buffer[0] << shift; shift += 8
LoadAcc(t) ==
    /\ tpc[t] = "aread"
    /\ tn' = [tn EXCEPT ![t] = BigAdd(tn[t], BigShl(ubuf[1], tshift[t]))]
    /\ tshift' = [tshift EXCEPT ![t] = tshift[t] + 8]
    /\ tleft' = [tleft EXCEPT ![t] = tleft[t] - 1]
    /\ tpc' = [tpc EXCEPT ![t] = "loop"]
    /\ UNCHANGED <<seqvars, queuevars, tbuf, tin, ubuf>>

\* range(width) is exhausted: the pass returns
TaskReturn(t) ==
    /\ tpc[t] = "loop" /\ tleft[t] = 0
    /\ tpc' = [tpc EXCEPT ![t] = "done"]
    /\ UNCHANGED <<seqvars, queuevars, tn, tleft, tshift, tbuf, tin, ubuf>>

NextTasks ==
    \E t \in Tasks :
        \/ DumpSet(t)
        \/ AwriteCopy(t)
        \/ DumpNext(t)
        \/ LoadCall(t)
        \/ AreadFill(t)
        \/ LoadAcc(t)
        \/ TaskReturn(t)

SpecTasks == InitTasks /\ [][NextTasks]_vars

(***************************************************************************)
(* One MemoryReaderWriter under any sequence of awrite and areadinto       *)
(* calls.  written and delivered record what the callers handed in and got *)
(* back.  MaxQueue bounds the bytes written after construction.            *)
(***************************************************************************)
MaxQueue == 4

\* the buffers handed to MemoryReaderWriter(buffer) and to awrite
QueueBufs == SeqsUpTo({7, 8}, MaxLen)

InitQueue ==
    /\ pc = "queue"
    /\ io \in {[buffer |-> b, ub |-> <<0>>] : b \in QueueBufs}
    /\ dumped = NoCall
    /\ loaded = NoCall
    /\ InitTasksIdle
    /\ written = io.buffer
    /\ delivered = <<>>

\* await rw.awrite(buf)
QueueWrite ==
    /\ pc = "queue"
    /\ Len(written) < MaxQueue
    /\ \E buf \in QueueBufs :
        /\ io' = awrite(io, buf)
        /\ written' = written \o buf
    /\ UNCHANGED <<pc, dumped, loaded, taskvars, delivered>>

\* nread = await rw.areadinto(buf) with buf = bytearray(n): the caller gets
\* the first nread bytes of buf
QueueRead ==
    /\ pc = "queue"
    /\ \E n \in 1..(MaxLen + 1) :
        /\ io' = areadinto(io, Zeros(n)).io
        /\ delivered' = delivered \o SubSeq(areadinto(io, Zeros(n)).buf, 1,
                                            areadinto(io, Zeros(n)).nread)
    /\ UNCHANGED <<pc, dumped, loaded, taskvars, written>>

NextQueue == QueueWrite \/ QueueRead

SpecQueue == InitQueue /\ [][NextQueue]_vars

(***************************************************************************)
(* Values dumped back to back onto one MemoryReaderWriter and then loaded  *)
(* from it in the same order.  Here dumped and loaded are the sequences of *)
(* the calls made so far.  MaxDumps bounds the number of values.           *)
(***************************************************************************)
MaxDumps == 2

\* the values dumped: every kind of type, texts of at most one character
\* (a text after a multi-byte character would be taken as a length by the
\* load that follows)
StreamInputs == {x \in WellFormedInputs : x[1].k = "str" => Len(x[1].s) <= 1}

InitStream ==
    /\ pc = "stream"
    /\ io = [buffer |-> <<>>, ub |-> <<0>>]
    /\ dumped = <<>>
    /\ loaded = <<>>
    /\ InitTasksIdle
    /\ InitQueueIdle

\* await dump_field(writer, elem, elem_type, params) for a well-formed value
\* that dump_field accepts
StreamDump ==
    /\ pc = "stream" /\ loaded = <<>> /\ Len(dumped) < MaxDumps
    /\ \E x \in StreamInputs :
        /\ dump_field(io, x[1], x[2], x[3]).st = "ok"
        /\ io' = dump_field(io, x[1], x[2], x[3]).io
        /\ dumped' = Append(dumped, [elem |-> x[1], type |-> x[2], params |-> x[3],
                                     at |-> Len(io.buffer)])
    /\ UNCHANGED <<pc, loaded, taskvars, queuevars>>

\* await load_field(reader, elem_type, params) for the next value's type,
\* reader being MemoryReaderWriter(writer.buffer); an exception raised by
\* one load ends the sequence of loads
StreamLoad ==
    /\ pc = "stream" /\ Len(loaded) < Len(dumped)
    /\ \A k \in 1..Len(loaded) : loaded[k].st = "ok"
    /\ io' = load_field(io, dumped[Len(loaded) + 1].type, dumped[Len(loaded) + 1].params,
                        None).io
    /\ loaded' = Append(loaded,
                        [st |-> load_field(io, dumped[Len(loaded) + 1].type,
                                           dumped[Len(loaded) + 1].params, None).st,
                         val |-> load_field(io, dumped[Len(loaded) + 1].type,
                                            dumped[Len(loaded) + 1].params, None).val,
                         before |-> io.buffer])
    /\ UNCHANGED <<pc, dumped, taskvars, queuevars>>

NextStream == StreamDump \/ StreamLoad

SpecStream == InitStream /\ [][NextStream]_vars

(***************************************************************************)
(* Structural equality of two values of type T: message field by field,    *)
(* container element-wise, variant by active alternative, blob by byte     *)
(* content (a bytearray, a list of ints and a wrapper holding the same     *)
(* bytes are equal), object identity ignored.                              *)
(***************************************************************************)
IsBlobValue(x) ==
    \/ x.k \in {"bytes", "list"}
    \/ IsBlobObj(x) /\ HasAttr(x, DATA_ATTR)

BlobContent(x) == BlobData(IF IsBlobObj(x) THEN GetAttr(x, DATA_ATTR) ELSE x)

\* the declared type of the alternative called fname
AltType(T, fname) == (CHOOSE f \in {T.FIELDS[i] : i \in 1..Len(T.FIELDS)} : f[1] = fname)[2]

RECURSIVE StructEq(_, _, _, _)
StructEq(T, params, l, r) ==
    CASE T.kind \in {"uvarint", "int"} -> l.k = "int" /\ r.k = "int" /\ l.n = r.n
      [] T.kind = "blob" ->
            IsBlobValue(l) /\ IsBlobValue(r) /\ BlobContent(l) = BlobContent(r)
      [] T.kind = "text" -> l.k = "str" /\ r.k = "str" /\ l.s = r.s
      [] T.kind = "container" ->
            /\ l.k = "list" /\ r.k = "list" /\ Len(l.items) = Len(r.items)
            /\ \A i \in 1..Len(l.items) :
                StructEq(ElemTypeOf(T, params), RestParams(params), l.items[i], r.items[i])
      [] T.kind = "variant" ->
            /\ l.k = "obj" /\ r.k = "obj" /\ l.cls = T /\ r.cls = T
            /\ GetAttr(l, "variant_elem").k = "name"
            /\ GetAttr(r, "variant_elem") = GetAttr(l, "variant_elem")
            /\ StructEq(AltType(T, GetAttr(l, "variant_elem").name), <<>>,
                        GetAttr(l, GetAttr(l, "variant_elem").name),
                        GetAttr(r, GetAttr(l, "variant_elem").name))
      [] T.kind = "message" ->
            /\ l.k = "obj" /\ r.k = "obj" /\ l.cls = T /\ r.cls = T
            /\ \A i \in 1..Len(T.FIELDS) :
                StructEq(T.FIELDS[i][2], FieldParams(T.FIELDS[i]),
                         GetAttr(l, T.FIELDS[i][1]), GetAttr(r, T.FIELDS[i][1]))

\* the load of this state followed the dump of this state, on the same buffer
LoadedAfterDump(load_fn, dump_fn) ==
    pc = "loaded" /\ loaded.fn = load_fn /\ dumped.fn = dump_fn

(***************************************************************************)
(* C1.  Round trip: every message value the driver dumps is written        *)
(* without an exception, and load_message over the written bytes, with the *)
(* value's type and no target, returns a value structurally equal to it    *)
(* and leaves the buffer empty.                                            *)
(***************************************************************************)
C1_RoundTrip ==
    /\ dumped.fn = "dump_message" => dumped.st = "ok"
    /\ (LoadedAfterDump("load_message", "dump_message") /\ loaded.elem.k = "None") =>
            /\ loaded.st = "ok"
            /\ StructEq(dumped.type, <<>>, loaded.val, dumped.elem)
            /\ io.buffer = <<>>

\* a Tx with a non-empty blob, two variants and two fixed-width ints came back
C1_Witness ==
    /\ LoadedAfterDump("load_message", "dump_message") /\ loaded.elem.k = "None"
    /\ dumped.type = Tx
    /\ Len(dumped.elem.attrs.vin.items) = 2
    /\ Len(dumped.elem.attrs.sizes.items) = 2
    /\ PyLen(dumped.elem.attrs.extra) > 0
    /\ loaded.st = "ok"
    /\ Len(loaded.val.attrs.vin.items) = 2

(***************************************************************************)
(* C2.  In-place reuse, as claimed: load_message into any caller-supplied  *)
(* target of the dumped value's type, whatever its fields hold, succeeds,  *)
(* returns the target itself and leaves it structurally equal to the       *)
(* dumped value.                                                           *)
(***************************************************************************)
C2_InPlaceReuse ==
    (LoadedAfterDump("load_message", "dump_message") /\ loaded.elem.k = "obj") =>
        /\ loaded.st = "ok"
        /\ loaded.val.id = loaded.elem.id
        /\ StructEq(dumped.type, <<>>, loaded.val, dumped.elem)

(***************************************************************************)
(* C3.  Short read, as claimed: a load that asks the transport for more    *)
(* bytes than the stream holds (a fixed blob of SIZE bytes, an integer of  *)
(* width bytes) ends with an end-of-stream error, never with a value.      *)
(***************************************************************************)
AsksMoreThanLeft ==
    /\ pc = "loaded"
    /\ \/ loaded.fn = "load_blob" /\ loaded.type.FIX_SIZE
          /\ Len(loaded.before) < loaded.type.SIZE
       \/ loaded.fn = "load_uint" /\ Len(loaded.before) < loaded.type

\* C3: every load that asks for more bytes than the stream holds ends with
\* EOFError.
C3_ShortReadFails == AsksMoreThanLeft => loaded.st = "EOFError"

(***************************************************************************)
(* C4.  Unknown variant tag, as claimed: load_variant on a stream whose    *)
(* leading uvarint is the VARIANT_CODE of no alternative of the type does  *)
(* not return a value.                                                     *)
(***************************************************************************)
VariantCodes(T) == {Big(T.FIELDS[i][2].VARIANT_CODE) : i \in 1..Len(T.FIELDS)}

LeadingUvarint(stream) == load_uvarint([buffer |-> stream, ub |-> <<0>>])

\* C4: load_variant on a stream whose leading uvarint is no declared
\* VARIANT_CODE does not end normally.
C4_UnknownTagRejected ==
    (/\ pc = "loaded" /\ loaded.fn = "load_variant"
     /\ LeadingUvarint(loaded.before).st = "ok"
     /\ LeadingUvarint(loaded.before).val.n \notin VariantCodes(loaded.type))
    => loaded.st # "ok"

(***************************************************************************)
(* C5.  Text framing, as claimed: a text field is written as the uvarint   *)
(* of the byte length of its UTF-8 encoding followed by those bytes, and   *)
(* load_field over the written bytes returns the text.                     *)
(***************************************************************************)
C5_TextFraming ==
    (dumped.fn = "dump_field" /\ dumped.type.kind = "text") =>
        /\ dumped.st = "ok"
        /\ dumped.out = UvarintBytes(Big(Len(Utf8Encode(dumped.elem.s))))
                            \o Utf8Encode(dumped.elem.s)
        /\ LoadedAfterDump("load_field", "dump_field") =>
                loaded.st = "ok" /\ loaded.val = dumped.elem

(***************************************************************************)
(* C6.  Passes on independent transports, as claimed: when two dump_uint / *)
(* load_uint passes run as cooperative tasks, each on its own transport,   *)
(* interleaved in any way at awrite / areadinto, each has written the      *)
(* bytes and returned the value it writes and returns when run alone.      *)
(***************************************************************************)
\* what the pass of task t leaves on a transport of its own when run alone
AloneBytes(t) ==
    IF tin[t].kind = "dump"
    THEN dump_uint([buffer |-> <<>>, ub |-> <<0>>], PyInt(tin[t].n), tin[t].width).io.buffer
    ELSE load_uint([buffer |-> tin[t].stream, ub |-> <<0>>], tin[t].width).io.buffer

\* what load_uint returns when the pass of task t runs alone
AloneValue(t) == load_uint([buffer |-> tin[t].stream, ub |-> <<0>>], tin[t].width).val.n

\* C6: a pass that has returned has left the bytes, and returned the value,
\* of the same pass run alone.
C6_IndependentPasses ==
    \A t \in DOMAIN tpc :
        tpc[t] = "done" =>
            /\ tbuf[t] = AloneBytes(t)
            /\ tin[t].kind = "load" => tn[t] = AloneValue(t)

(***************************************************************************)
(* C7.  Variable blob framing, as claimed: dump_blob with a variable-size  *)
(* descriptor writes uvarint(L) and the L bytes of the value, be the value *)
(* raw bytes or a wrapper object holding them in 'data'.                   *)
(***************************************************************************)
C7_VarBlobFraming ==
    (dumped.fn = "dump_blob" /\ ~dumped.type.FIX_SIZE) =>
        /\ dumped.st = "ok"
        /\ dumped.out = UvarintBytes(Big(Len(BlobContent(dumped.elem))))
                            \o BlobContent(dumped.elem)

(***************************************************************************)
(* C8.  Fixed blob framing, as claimed: a successful dump_blob with a      *)
(* fixed-size descriptor writes exactly SIZE bytes, and a value of another *)
(* length is rejected with nothing written.                                *)
(***************************************************************************)
C8_FixedBlobFraming ==
    (dumped.fn = "dump_blob" /\ dumped.type.FIX_SIZE) =>
        /\ dumped.st = "ok" => Len(dumped.out) = dumped.type.SIZE
        /\ Len(BlobContent(dumped.elem)) # dumped.type.SIZE =>
                dumped.st # "ok" /\ dumped.out = <<>>

(***************************************************************************)
(* C9.  Container size mismatch.                                           *)
(***************************************************************************)
\* the element count load_container decodes: SIZE, or the leading uvarint
DecodedCount(type, stream) == load_size([buffer |-> stream, ub |-> <<0>>], type)

\* a list was given as the target and the decoded count is not its length
TargetMismatch ==
    /\ pc = "loaded" /\ loaded.fn = "load_container" /\ loaded.elem.k = "list"
    /\ DecodedCount(loaded.type, loaded.before).st = "ok"
    /\ ToNat(DecodedCount(loaded.type, loaded.before).val.n) # Len(loaded.elem.items)

\* ValueError was raised with nothing read after the count and the target
\* as it was
FailedBeforeAnyElement ==
    /\ loaded.st = "ValueError"
    /\ io.buffer = DecodedCount(loaded.type, loaded.before).io.buffer
    /\ loaded.val = loaded.elem

\* C9 as claimed: with any target list, the empty one included, a count
\* different from the target's length fails before any element is decoded.
C9_AnyTargetMismatch ==
    TargetMismatch =>
        /\ loaded.st # "ok"
        /\ io.buffer = DecodedCount(loaded.type, loaded.before).io.buffer

\* C9 as amended: with a non-empty target list, a count different from the
\* target's length fails with ValueError before any element is decoded; an
\* empty target list is treated as no target and no size check is made.
C9_NonEmptyTargetMismatch ==
    /\ (TargetMismatch /\ Len(loaded.elem.items) > 0) => FailedBeforeAnyElement
    /\ (TargetMismatch /\ Len(loaded.elem.items) = 0) => loaded.st # "ValueError"

\* a target of two elements met a uvarint count of one with an element
\* still in the stream, and ValueError left that element unread
C9_Witness ==
    /\ TargetMismatch /\ FailedBeforeAnyElement
    /\ Len(loaded.elem.items) = 2 /\ ~loaded.type.FIX_SIZE
    /\ Len(loaded.before) > 1 /\ loaded.before[1] = 1
    /\ Len(io.buffer) = Len(loaded.before) - 1

(***************************************************************************)
(* C10.  Fixed-width integer round trip: for width w in {1,2,4,8} and      *)
(* 0 <= n < 2^(8w), dump_uint writes exactly w bytes, low-order byte       *)
(* first, and load_uint over them with width w returns n.                  *)
(***************************************************************************)
\* n < 2^(8 * width)
Fits(n, width) ==
    IF width = 1 THEN Len(n) = 0 \/ (Len(n) = 1 /\ n[1] < 256)
    ELSE Len(n) * LimbBits <= 8 * width

ByteAt(bs, i) == IF i <= Len(bs) THEN bs[i] ELSE 0

\* the int whose little-endian bytes are bs: limb j is bytes 2j-1 and 2j
LimbsOfBytes(bs) ==
    Norm([j \in 1..((Len(bs) + 1) \div 2) |-> bs[2 * j - 1] + 256 * ByteAt(bs, 2 * j)])

\* C10: for n < 2^(8 * width), dump_uint writes width bytes that are n in
\* little-endian order, and load_uint over them returns n and empties the stream.
C10_UintRoundTrip ==
    (dumped.fn = "dump_uint" /\ Fits(dumped.elem.n, dumped.type)) =>
        /\ dumped.st = "ok"
        /\ Len(dumped.out) = dumped.type
        /\ LimbsOfBytes(dumped.out) = dumped.elem.n
        /\ LoadedAfterDump("load_uint", "dump_uint") =>
                loaded.st = "ok" /\ loaded.val = dumped.elem /\ io.buffer = <<>>

\* 2^64 - 1 went through eight bytes and came back
C10_Witness ==
    /\ LoadedAfterDump("load_uint", "dump_uint")
    /\ dumped.type = 8
    /\ dumped.elem.n = BigPred(BigPow2(64))
    /\ Len(dumped.out) = 8
    /\ loaded.val.n = BigPred(BigPow2(64))

(***************************************************************************)
(* C11.  Emission order: the bytes written for a message are its fields'   *)
(* encodings concatenated in the order of FIELDS, those for a variable     *)
(* container uvarint(n) and the n element encodings in index order,        *)
(* depth-first; load_message consumes them in the same order.              *)
(***************************************************************************)
\* the width bytes of n, low-order byte first
LeBytes(n, width) ==
    [i \in 1..width |-> (Limb(n, (i + 1) \div 2) \div (IF i % 2 = 1 THEN 1 ELSE 256)) % 256]

RECURSIVE Enc(_, _, _)
RECURSIVE EncItems(_, _, _, _)
RECURSIVE EncFields(_, _, _)

\* the encodings of items[i..] one after the other
EncItems(T, params, items, i) ==
    IF i > Len(items) THEN <<>>
    ELSE Enc(T, params, items[i]) \o EncItems(T, params, items, i + 1)

\* the encodings of the fields i.. of msg in declaration order
EncFields(fields, msg, i) ==
    IF i > Len(fields) THEN <<>>
    ELSE Enc(fields[i][2], FieldParams(fields[i]), GetAttr(msg, fields[i][1]))
            \o EncFields(fields, msg, i + 1)

\* the encoding of value v of type T, by the structure of T
Enc(T, params, v) ==
    CASE T.kind = "uvarint" -> UvarintBytes(v.n)
      [] T.kind = "int" -> LeBytes(v.n, T.WIDTH)
      [] T.kind = "blob" ->
            (IF T.FIX_SIZE THEN <<>> ELSE UvarintBytes(Big(Len(BlobContent(v)))))
                \o BlobContent(v)
      [] T.kind = "container" ->
            (IF T.FIX_SIZE THEN <<>> ELSE UvarintBytes(Big(Len(v.items))))
                \o EncItems(ElemTypeOf(T, params), RestParams(params), v.items, 1)
      [] T.kind = "variant" ->
            UvarintBytes(Big(AltType(T, GetAttr(v, "variant_elem").name).VARIANT_CODE))
                \o Enc(AltType(T, GetAttr(v, "variant_elem").name), <<>>,
                       GetAttr(v, GetAttr(v, "variant_elem").name))
      [] T.kind = "message" -> EncFields(T.FIELDS, v, 1)

\* C11: dump_message writes the fields' encodings in declaration order,
\* containers as count and elements in index order, and load_message over
\* those bytes reads the fields back in that order and empties the stream.
C11_EmissionOrder ==
    /\ dumped.fn = "dump_message" =>
            dumped.st = "ok" /\ dumped.out = Enc(dumped.type, <<>>, dumped.elem)
    /\ (LoadedAfterDump("load_message", "dump_message") /\ loaded.elem.k = "None") =>
            /\ loaded.st = "ok"
            /\ io.buffer = <<>>
            /\ \A i \in 1..Len(dumped.type.FIELDS) :
                    StructEq(dumped.type.FIELDS[i][2], FieldParams(dumped.type.FIELDS[i]),
                             GetAttr(loaded.val, dumped.type.FIELDS[i][1]),
                             GetAttr(dumped.elem, dumped.type.FIELDS[i][1]))

\* the TxinToKey of the tests was written as 0x7B, 0x04, varint(1), varint(2),
\* varint(3), varint(2^76) and the 32 bytes, and loaded back
C11_Witness ==
    /\ LoadedAfterDump("load_message", "dump_message")
    /\ dumped.elem = TestTxinToKey
    /\ dumped.out = <<123, 4, 1, 2, 3,
                      128, 128, 128, 128, 128, 128, 128, 128, 128, 128, 64>> \o EcData
    /\ loaded.st = "ok"
    /\ loaded.val.attrs.key_offsets = TestTxinToKey.attrs.key_offsets

(***************************************************************************)
(* C12.  The in-memory transport is a FIFO byte queue: after any sequence  *)
(* of awrite and areadinto calls on one MemoryReaderWriter, the bytes the  *)
(* reads delivered followed by the bytes still in the buffer are the       *)
(* initial buffer followed by all bytes written, in write order.           *)
(***************************************************************************)
C12_FifoQueue == pc = "queue" => delivered \o io.buffer = written

\* two different bytes were delivered, a later write is still in the buffer
C12_Witness ==
    /\ pc = "queue"
    /\ Len(delivered) >= 2 /\ delivered[1] # delivered[2]
    /\ Len(io.buffer) >= 2 /\ io.buffer[1] # io.buffer[2]
    /\ Len(written) > Len(delivered) + 1

(***************************************************************************)
(* C13.  Variant tie-breaking, as claimed: when two alternatives of FIELDS *)
(* carry the code the stream's tag holds, load_variant decodes the first   *)
(* declared one only, makes it the active alternative, and consumes the    *)
(* tag and that alternative's encoding and nothing more.                   *)
(***************************************************************************)
\* the indices of the alternatives of T whose VARIANT_CODE is tag
AltsWithCode(T, tag) == {i \in 1..Len(T.FIELDS) : Big(T.FIELDS[i][2].VARIANT_CODE) = tag}

FirstAlt(T, tag) == CHOOSE i \in AltsWithCode(T, tag) : \A j \in AltsWithCode(T, tag) : i <= j

\* the first declared alternative decoded from the stream after the tag
FirstAltLoaded(T, stream) ==
    load_field(LeadingUvarint(stream).io,
               T.FIELDS[FirstAlt(T, LeadingUvarint(stream).val.n)][2], <<>>, None)

\* C13: with a tag that two alternatives share and a stream that goes on
\* after the first one's encoding, the result is the first declared
\* alternative and the stream is left where its encoding ends.
C13_FirstDeclaredWins ==
    (/\ pc = "loaded" /\ loaded.fn = "load_variant" /\ loaded.elem.k = "None"
     /\ LeadingUvarint(loaded.before).st = "ok"
     /\ Cardinality(AltsWithCode(loaded.type, LeadingUvarint(loaded.before).val.n)) > 1
     /\ FirstAltLoaded(loaded.type, loaded.before).st = "ok"
     /\ FirstAltLoaded(loaded.type, loaded.before).io.buffer # <<>>)
    =>  /\ loaded.st = "ok"
        /\ GetAttr(loaded.val, "variant_elem")
                = PyName(loaded.type.FIELDS[FirstAlt(loaded.type,
                                            LeadingUvarint(loaded.before).val.n)][1])
        /\ io.buffer = FirstAltLoaded(loaded.type, loaded.before).io.buffer

(***************************************************************************)
(* C14.  Archive and free functions agree, as claimed: Archive.field in    *)
(* writing mode writes the bytes dump_field writes for the same value,     *)
(* type and params, and in reading mode returns what load_field returns on *)
(* the same stream, also when elem is None and the type is a message.      *)
(***************************************************************************)
\* dump_field on a new writer with what Archive.field was given
FreeDump == dump_field([buffer |-> <<>>, ub |-> <<0>>], dumped.elem, dumped.type, dumped.params)

\* load_field on the stream Archive.field was given
FreeLoad ==
    load_field([buffer |-> loaded.before, ub |-> <<0>>], loaded.type, loaded.params,
               loaded.elem)

\* C14: Archive.field and dump_field / load_field end the same way, with the
\* same bytes written, the same value returned and the same bytes left.
C14_ArchiveAgrees ==
    /\ dumped.fn = "Archive.field" =>
            dumped.st = FreeDump.st /\ dumped.out = FreeDump.io.buffer
    /\ (pc = "loaded" /\ loaded.fn = "Archive.field") =>
            /\ loaded.st = FreeLoad.st
            /\ loaded.val = FreeLoad.val
            /\ io.buffer = FreeLoad.io.buffer

(***************************************************************************)
(* C15.  Decode consumes exactly what encode produced, as claimed: loading *)
(* a value's type from a buffer that holds the value's encoding followed   *)
(* by further bytes returns the value and leaves exactly the further bytes *)
(* in the buffer; values dumped back to back load in the same order and    *)
(* leave the buffer empty.                                                 *)
(***************************************************************************)
\* the bytes all dumps together left in the buffer
StreamBytes == IF loaded = <<>> THEN io.buffer ELSE loaded[1].before

\* where the encoding of the k-th dumped value ends in StreamBytes
EndOf(k) == IF k < Len(dumped) THEN dumped[k + 1].at ELSE Len(StreamBytes)

\* the buffer after the k-th load
AfterLoad(k) == IF k < Len(loaded) THEN loaded[k + 1].before ELSE io.buffer

\* C15: every load that starts where its value's encoding starts returns
\* the value and leaves the buffer at the end of that encoding.
C15_ExactConsumption ==
    pc = "stream" =>
        \A k \in 1..Len(loaded) :
            loaded[k].before = SubSeq(StreamBytes, dumped[k].at + 1, Len(StreamBytes)) =>
                /\ loaded[k].st = "ok"
                /\ StructEq(dumped[k].type, dumped[k].params, loaded[k].val, dumped[k].elem)
                /\ AfterLoad(k) = SubSeq(StreamBytes, EndOf(k) + 1, Len(StreamBytes))

====
